---- MODULE Spec2Model ----
(***************************************************************************)
(* Outline parser (parseMarkdown) and layout engine (calculateLayout) of   *)
(* the mind-map renderer, src/src/utils/layout.ts, and the task queue of   *)
(* the background worker, src/src/background/taskManager.ts.               *)
(*                                                                         *)
(* A string is a sequence of one-character strings.  The markdown text is  *)
(* held as the list of its lines (markdown.split('\n')), which is never    *)
(* empty: the empty text is the single empty line.                         *)
(*                                                                         *)
(* Coordinates are rationals in the source (halves of widths and heights,  *)
(* horizontalSpacing * 0.5, * 0.6 and * 0.8 * 0.6).  The model stores      *)
(* every x and y in fiftieths, which makes all of them integers, and       *)
(* computes with exact arithmetic.                                         *)
(***************************************************************************)
EXTENDS Integers, Sequences, FiniteSets, TLC

VARIABLES
    lines,              \* parseMarkdown: markdown.split('\n')
    pc,                 \* parseMarkdown: position in the function
    idx,                \* parseMarkdown: index of the line the second loop is at
    nodes,              \* parseMarkdown: the tree, nodes[1] is rootNode
    stack,              \* parseMarkdown: stack of (node, minLevel)
    nodeIdCounter,      \* parseMarkdown: nodeIdCounter
    currentBaseLevel,   \* parseMarkdown: currentBaseLevel
    isFirstHeading,     \* parseMarkdown: isFirstHeading
    thrown,             \* parseMarkdown: a TypeError was raised
    emittedAt,          \* history: emittedAt[k] is the line that made nodes[k]
    returned,           \* history: the text and the tree of every earlier call
    root,               \* calculateLayout: the tree passed in
    options,            \* calculateLayout: the options passed in
    positions,          \* calculateLayout: the returned position map
    nodeDimensions,     \* calculateLayout: nodeDimensions
    links,              \* renderer: the link path of every positioned child
    lpc,                \* calculateLayout: "call" before, "done" after
    tasks,              \* TaskManager: this.tasks, in the order of insertion
    isProcessing,       \* TaskManager: this.isProcessing
    stored,             \* chrome.storage.local: the array under 'active_tasks'
    storedTasks,        \* restoreTasks: the array its get was answered with
    rpc,                \* restoreTasks: "get" while awaiting, "done" after
    writes,             \* chrome.storage.local: the set calls not yet answered
    current,            \* processQueue: the id of pendingTask, 0 if none
    epc,                \* executeTask: position in the function
    nextId,             \* uuidv4: the next unused id
    restarts,           \* the number of times the service worker was restarted
    ended,              \* history: ids of the tasks whose execution has ended
    createdBy           \* history: the download task that created a task, or 0

parseVars == <<lines, pc, idx, nodes, stack, nodeIdCounter, currentBaseLevel,
               isFirstHeading, thrown, emittedAt, returned>>
layoutVars == <<root, options, positions, nodeDimensions, links, lpc>>
taskVars == <<tasks, isProcessing, stored, storedTasks, rpc, writes, current, epc,
              nextId, restarts, ended, createdBy>>
vars == <<parseVars, layoutVars, taskVars>>

\* No task manager has been constructed
TaskIdle ==
    /\ tasks = <<>>
    /\ isProcessing = FALSE
    /\ stored = <<>>
    /\ storedTasks = <<>>
    /\ rpc = "off"
    /\ writes = <<>>
    /\ current = 0
    /\ epc = "idle"
    /\ nextId = 1
    /\ restarts = 0
    /\ ended = {}
    /\ createdBy = <<>>

-----------------------------------------------------------------------------
(* Strings *)

Max(a, b) == IF a >= b THEN a ELSE b

IsWhitespace(c) == c \in {" ", "\t"}

\* Number of leading whitespace characters: line.match(/^(\s*)/)[1].length
leadingSpaces(s) ==
    IF \A k \in 1..Len(s) : IsWhitespace(s[k]) THEN Len(s)
    ELSE (CHOOSE k \in 1..Len(s) :
            ~IsWhitespace(s[k]) /\ \A j \in 1..(k - 1) : IsWhitespace(s[j])) - 1

\* Index of the last character that is no whitespace, 0 if there is none
lastNonSpace(s) ==
    IF \A k \in 1..Len(s) : IsWhitespace(s[k]) THEN 0
    ELSE CHOOSE k \in 1..Len(s) :
            ~IsWhitespace(s[k]) /\ \A j \in (k + 1)..Len(s) : IsWhitespace(s[j])

\* String.prototype.trim
trim(s) ==
    IF lastNonSpace(s) = 0 THEN <<>>
    ELSE SubSeq(s, leadingSpaces(s) + 1, lastNonSpace(s))

\* Length of the run of character c at the start of s
leadingRun(s, c) ==
    IF \A k \in 1..Len(s) : s[k] = c THEN Len(s)
    ELSE (CHOOSE k \in 1..Len(s) :
            s[k] # c /\ \A j \in 1..(k - 1) : s[j] = c) - 1

\* s.replace(/\s*-\s*$/, ''): the leftmost match is the last '-' that only
\* whitespace follows, together with the whitespace around it
stripTrailingDash(s) ==
    LET e == lastNonSpace(s) IN
    IF e = 0 \/ s[e] # "-" THEN s
    ELSE LET b == IF \A k \in 1..(e - 1) : IsWhitespace(s[k]) THEN 1
                  ELSE (CHOOSE k \in 1..(e - 1) :
                          ~IsWhitespace(s[k])
                          /\ \A j \in (k + 1)..(e - 1) : IsWhitespace(s[j])) + 1
         IN SubSeq(s, 1, b - 1)

NoMatch == [matched |-> FALSE]

\* trimmedLine.match(/^(#{1,6})\s+(.*)$/): group 1 is the whole run of '#'
\* (1 to 6 of them, whitespace next), group 2 what follows the whitespace
headingMatch(t) ==
    LET h == leadingRun(t, "#") IN
    IF h >= 1 /\ h <= 6 /\ Len(t) > h /\ IsWhitespace(t[h + 1])
    THEN LET rest == SubSeq(t, h + 1, Len(t)) IN
         [matched |-> TRUE, g1 |-> SubSeq(t, 1, h),
          g2 |-> SubSeq(rest, leadingSpaces(rest) + 1, Len(rest))]
    ELSE NoMatch

\* Mutant: only '-' is a bullet
listMatch_DashOnly(t) ==
    IF Len(t) >= 2 /\ t[1] = "-" /\ IsWhitespace(t[2])
    THEN LET rest == SubSeq(t, 2, Len(t)) IN
         [matched |-> TRUE, g1 |-> SubSeq(rest, leadingSpaces(rest) + 1, Len(rest))]
    ELSE NoMatch

\* trimmedLine.match(/^[-*]\s+(.*)$/)
listMatch(t) ==
    IF Len(t) >= 2 /\ t[1] \in {"-", "*"} /\ IsWhitespace(t[2])
    THEN LET rest == SubSeq(t, 2, Len(t)) IN
         [matched |-> TRUE, g1 |-> SubSeq(rest, leadingSpaces(rest) + 1, Len(rest))]
    ELSE NoMatch

\* headingMatch[2].trim().replace(/\s*-\s*$/, '')
headingText(m) == stripTrailingDash(trim(m.g2))

startsWith(t, c) == Len(t) >= 1 /\ t[1] = c

calculateIndentLevel(line) ==
    LET n == leadingSpaces(line)
        tabCount == Cardinality({k \in 1..n : line[k] = "\t"})
        spaceCount == n - tabCount
    IN tabCount * 2 + (spaceCount \div 2)

-----------------------------------------------------------------------------
(* parseMarkdown *)

\* Characters outside ASCII are written by their code point: "u4e2d" is one
\* character.  The default label is '\u4e2d\u5fc3\u4e3b\u9898'.
DefaultTitle == <<"u4e2d", "u5fc3", "u4e3b", "u9898">>

NodeId(k) == "node-" \o ToString(k)

\* Mutant: the first heading line is taken even when its label is empty
RECURSIVE findRootTitle_AnyHeading(_, _)
findRootTitle_AnyHeading(ls, k) ==
    IF k > Len(ls) THEN [text |-> DefaultTitle, line |-> 0]
    ELSE LET trimmedLine == trim(ls[k])
             m == headingMatch(trimmedLine)
         IN IF trimmedLine # <<>> /\ m.matched
            THEN [text |-> headingText(m), line |-> k]
            ELSE findRootTitle_AnyHeading(ls, k + 1)

\* The loop at the top of parseMarkdown: the label of the first heading line
\* whose text is not empty, and the default label if there is none
RECURSIVE findRootTitle(_, _)
findRootTitle(ls, k) ==
    IF k > Len(ls) THEN [text |-> DefaultTitle, line |-> 0]
    ELSE LET trimmedLine == trim(ls[k])
             m == headingMatch(trimmedLine)
         IN IF trimmedLine # <<>> /\ m.matched /\ headingText(m) # <<>>
            THEN [text |-> headingText(m), line |-> k]
            ELSE findRootTitle(ls, k + 1)

\* Mutant: entries of the same level stay on the stack
RECURSIVE popStack_Strict(_, _)
popStack_Strict(st, level) ==
    IF Len(st) > 1 /\ st[Len(st)].minLevel > level
    THEN popStack_Strict(SubSeq(st, 1, Len(st) - 1), level)
    ELSE st

\* Mutant: at most one entry is popped
popStack_Once(st, level) ==
    IF Len(st) > 1 /\ st[Len(st)].minLevel >= level
    THEN SubSeq(st, 1, Len(st) - 1)
    ELSE st

\* The while loop of processNode: pop the entries at or below the level
RECURSIVE popStack(_, _)
popStack(st, level) ==
    IF Len(st) > 1 /\ st[Len(st)].minLevel >= level
    THEN popStack(SubSeq(st, 1, Len(st) - 1), level)
    ELSE st

\* Mutant: nothing is popped, the node goes below the top of the stack
processNode_NoPop(text, level, st, idCounter, tree) ==
    LET parentNode == IF Len(st) = 0 THEN 0 ELSE st[Len(st)].node
        newNode == [id |-> NodeId(idCounter), text |-> text, level |-> level,
                    parent |-> parentNode, expanded |-> FALSE]
    IN [nodes |-> Append(tree, newNode),
        stack |-> Append(st, [node |-> Len(tree) + 1, minLevel |-> level]),
        thrown |-> Len(st) = 0]

\* Mutant: a new node is made expanded
processNode_Expanded(text, level, st, idCounter, tree) ==
    LET popped == popStack(st, level)
        parentNode == IF Len(popped) = 0 THEN 0 ELSE popped[Len(popped)].node
        newNode == [id |-> NodeId(idCounter), text |-> text, level |-> level,
                    parent |-> parentNode, expanded |-> TRUE]
    IN [nodes |-> Append(tree, newNode),
        stack |-> Append(popped, [node |-> Len(tree) + 1, minLevel |-> level]),
        thrown |-> Len(popped) = 0]

\* processNode(text, level, stack, idCounter): the new tree and the new stack
processNode(text, level, st, idCounter, tree) ==
    LET popped == popStack(st, level)
        parentNode == IF Len(popped) = 0 THEN 0 ELSE popped[Len(popped)].node
        newNode == [id |-> NodeId(idCounter), text |-> text, level |-> level,
                    parent |-> parentNode, expanded |-> FALSE]
    IN [nodes |-> Append(tree, newNode),
        stack |-> Append(popped, [node |-> Len(tree) + 1, minLevel |-> level]),
        thrown |-> Len(popped) = 0]

\* The lines the model's texts are made of
LineSet ==
    { <<"#", " ", "T">>,                      \* heading, 1 marker
      <<"#", "#", " ", "A", " ", "-">>,       \* heading, 2 markers, trailing dash
      <<"#", " ", "-">>,                      \* heading whose label is empty
      <<"-", " ", "a">>,                      \* list item, no indentation
      <<" ", " ", "*", " ", "b">>,            \* list item, 2 spaces
      <<"c">>,                                \* bare text, no indentation
      <<" ", " ", "d">>,                      \* bare text, 2 spaces
      <<" ", " ", " ", " ", "e">>,            \* bare text, 4 spaces
      <<"\t", "-", " ", "f">>,                \* list item, 1 tab
      <<" ", " ", "-", "x">>,                 \* a marker with no whitespace after it
      <<>> }                                  \* blank

MaxLines == 3

\* The text of the test 'should handle indented text' (markdownParser.test.ts)
IndentedTextExample ==
    << <<"c">>, <<" ", " ", "d">>, <<" ", " ", " ", " ", "e">>, <<" ", " ", "d">> >>

\* The text of the test 'should handle mixed format' (markdownParser.test.ts)
MixedFormatExample ==
    << <<"#", " ", "T">>, <<"-", " ", "a">>, <<" ", " ", "-", " ", "b">>,
       <<"#", "#", " ", "c">>, <<" ", " ", "-", " ", "d">> >>

\* A text whose headings end with more than one dash: '# A--', '## B - -'
TrailingDashesExample ==
    << <<"#", " ", "A", "-", "-">>, <<"#", "#", " ", "B", " ", "-", " ", "-">> >>

\* The texts parsed: every text of up to MaxLines lines of LineSet, the
\* texts of the tests and the text with the dashes
IsText(ls) ==
    \/ \E n \in 1..MaxLines : ls \in [1..n -> LineSet]
    \/ ls = IndentedTextExample
    \/ ls = MixedFormatExample
    \/ ls = TrailingDashesExample

NoRoot == <<>>
NoOptions == [direction |-> "both", horizontalSpacing |-> 0, verticalSpacing |-> 0,
              centerOffset |-> 0]
NoPositions == <<>>
NoDimensions == <<>>
NoLinks == <<>>

LayoutIdle ==
    /\ root = NoRoot
    /\ options = NoOptions
    /\ positions = NoPositions
    /\ nodeDimensions = NoDimensions
    /\ links = NoLinks
    /\ lpc = "idle"

ParseInit ==
    /\ IsText(lines)
    /\ pc = "findRoot"
    /\ idx = 1
    /\ nodes = <<[id |-> "root", text |-> DefaultTitle, level |-> 0, parent |-> 0,
                  expanded |-> TRUE]>>
    /\ stack = <<>>
    /\ nodeIdCounter = 0
    /\ currentBaseLevel = 0
    /\ isFirstHeading = TRUE
    /\ thrown = FALSE
    /\ emittedAt = <<0>>
    /\ returned = <<>>
    /\ LayoutIdle
    /\ TaskIdle

\* Mutant: isFirstHeading is kept from one call to the next
FindRoot_KeepFirstHeading ==
    /\ pc = "findRoot"
    /\ LET r == findRootTitle(lines, 1) IN
        /\ nodes' = <<[id |-> "root", text |-> r.text, level |-> 0, parent |-> 0,
                       expanded |-> TRUE]>>
        /\ emittedAt' = <<r.line>>
    /\ stack' = <<[node |-> 1, minLevel |-> 0]>>
    /\ nodeIdCounter' = 0
    /\ currentBaseLevel' = 0
    /\ idx' = 1
    /\ pc' = "loop"
    /\ UNCHANGED <<lines, returned, thrown, isFirstHeading, layoutVars, taskVars>>

\* Lines 575-614: the default root, the search for the first heading, the
\* stack and the counters
FindRoot ==
    /\ pc = "findRoot"
    /\ LET r == findRootTitle(lines, 1) IN
        /\ nodes' = <<[id |-> "root", text |-> r.text, level |-> 0, parent |-> 0,
                       expanded |-> TRUE]>>
        /\ emittedAt' = <<r.line>>
    /\ stack' = <<[node |-> 1, minLevel |-> 0]>>
    /\ nodeIdCounter' = 0
    /\ currentBaseLevel' = 0
    /\ isFirstHeading' = TRUE
    /\ idx' = 1
    /\ pc' = "loop"
    /\ UNCHANGED <<lines, returned, thrown, layoutVars, taskVars>>

AtLine == pc = "loop" /\ idx <= Len(lines)

\* The effect of one processNode call on the state of parseMarkdown
\* Mutant: the id counter is passed on without being incremented
Emit_SameId(text, level) ==
    LET r == processNode(text, level, stack, nodeIdCounter, nodes) IN
    IF r.thrown
    THEN /\ thrown' = TRUE
         /\ pc' = "done"
         /\ UNCHANGED <<nodes, stack, nodeIdCounter, idx, emittedAt>>
    ELSE /\ nodes' = r.nodes
         /\ stack' = r.stack
         /\ nodeIdCounter' = nodeIdCounter
         /\ emittedAt' = Append(emittedAt, idx)
         /\ idx' = idx + 1
         /\ UNCHANGED <<thrown, pc>>

Emit(text, level) ==
    LET r == processNode(text, level, stack, nodeIdCounter, nodes) IN
    IF r.thrown
    THEN /\ thrown' = TRUE
         /\ pc' = "done"
         /\ UNCHANGED <<nodes, stack, nodeIdCounter, idx, emittedAt>>
    ELSE /\ nodes' = r.nodes
         /\ stack' = r.stack
         /\ nodeIdCounter' = nodeIdCounter + 1
         /\ emittedAt' = Append(emittedAt, idx)
         /\ idx' = idx + 1
         /\ UNCHANGED <<thrown, pc>>

Skip ==
    /\ idx' = idx + 1
    /\ UNCHANGED <<nodes, stack, nodeIdCounter, thrown, pc, emittedAt>>

\* Lines 617-618: a blank line
BlankLine ==
    /\ AtLine
    /\ trim(lines[idx]) = <<>>
    /\ Skip
    /\ UNCHANGED <<lines, returned, currentBaseLevel, isFirstHeading, layoutVars, taskVars>>

\* Mutant: a heading that makes a node leaves the base level as it is
HeadingLine_KeepBase ==
    /\ AtLine
    /\ LET trimmedLine == trim(lines[idx])
           m == headingMatch(trimmedLine)
       IN /\ trimmedLine # <<>>
          /\ m.matched
          /\ LET level == Len(m.g1)
                 text == headingText(m)
             IN IF text = <<>>
                THEN Skip /\ UNCHANGED <<currentBaseLevel, isFirstHeading>>
                ELSE IF isFirstHeading
                THEN /\ isFirstHeading' = FALSE
                     /\ currentBaseLevel' = level
                     /\ Skip
                ELSE /\ Emit(text, level)
                     /\ UNCHANGED <<currentBaseLevel, isFirstHeading>>
    /\ UNCHANGED <<lines, returned, layoutVars, taskVars>>

\* Lines 620-638: a heading line
HeadingLine ==
    /\ AtLine
    /\ LET trimmedLine == trim(lines[idx])
           m == headingMatch(trimmedLine)
       IN /\ trimmedLine # <<>>
          /\ m.matched
          /\ LET level == Len(m.g1)
                 text == headingText(m)
             IN IF text = <<>>
                THEN Skip /\ UNCHANGED <<currentBaseLevel, isFirstHeading>>
                ELSE IF isFirstHeading
                THEN /\ isFirstHeading' = FALSE
                     /\ currentBaseLevel' = level
                     /\ Skip
                ELSE /\ Emit(text, level)
                     /\ currentBaseLevel' = level
                     /\ UNCHANGED isFirstHeading
    /\ UNCHANGED <<lines, returned, layoutVars, taskVars>>

\* Mutant: the level of a list item is its indentation level + 1
ListLine_NoBase ==
    /\ AtLine
    /\ LET trimmedLine == trim(lines[idx])
           m == listMatch(trimmedLine)
       IN /\ trimmedLine # <<>>
          /\ ~headingMatch(trimmedLine).matched
          /\ m.matched
          /\ LET text == trim(m.g1)
                 indentLevel == calculateIndentLevel(lines[idx])
             IN IF text # <<>>
                THEN Emit(text, indentLevel + 1)
                ELSE Skip
    /\ UNCHANGED <<lines, returned, currentBaseLevel, isFirstHeading, layoutVars, taskVars>>

\* Lines 640-654: a list item
ListLine ==
    /\ AtLine
    /\ LET trimmedLine == trim(lines[idx])
           m == listMatch(trimmedLine)
       IN /\ trimmedLine # <<>>
          /\ ~headingMatch(trimmedLine).matched
          /\ m.matched
          /\ LET text == trim(m.g1)
                 indentLevel == calculateIndentLevel(lines[idx])
             IN IF text # <<>>
                THEN Emit(text, currentBaseLevel + indentLevel + 1)
                ELSE Skip
    /\ UNCHANGED <<lines, returned, currentBaseLevel, isFirstHeading, layoutVars, taskVars>>

\* Mutant: bare text makes a node whatever its indentation
TextLine_NoIndentCheck ==
    /\ AtLine
    /\ LET trimmedLine == trim(lines[idx])
           indentLevel == calculateIndentLevel(lines[idx])
       IN /\ trimmedLine # <<>>
          /\ ~headingMatch(trimmedLine).matched
          /\ ~listMatch(trimmedLine).matched
          /\ IF /\ ~startsWith(trimmedLine, "#")
                /\ ~startsWith(trimmedLine, "-")
                /\ ~startsWith(trimmedLine, "*")
             THEN Emit(trimmedLine, currentBaseLevel + indentLevel)
             ELSE Skip
    /\ UNCHANGED <<lines, returned, currentBaseLevel, isFirstHeading, layoutVars, taskVars>>

\* Lines 656-666: any other line
TextLine ==
    /\ AtLine
    /\ LET trimmedLine == trim(lines[idx])
           indentLevel == calculateIndentLevel(lines[idx])
       IN /\ trimmedLine # <<>>
          /\ ~headingMatch(trimmedLine).matched
          /\ ~listMatch(trimmedLine).matched
          /\ IF /\ ~startsWith(trimmedLine, "#")
                /\ ~startsWith(trimmedLine, "-")
                /\ ~startsWith(trimmedLine, "*")
                /\ indentLevel > 0
             THEN Emit(trimmedLine, currentBaseLevel + indentLevel)
             ELSE Skip
    /\ UNCHANGED <<lines, returned, currentBaseLevel, isFirstHeading, layoutVars, taskVars>>

\* Line 669: return rootNode
Return ==
    /\ pc = "loop"
    /\ idx > Len(lines)
    /\ pc' = "done"
    /\ UNCHANGED <<lines, returned, idx, nodes, stack, nodeIdCounter, currentBaseLevel,
                   isFirstHeading, thrown, emittedAt, layoutVars, taskVars>>

-----------------------------------------------------------------------------
(* calculateLayout *)

\* A tree is a sequence of nodes in which every node but the first names an
\* earlier node as its parent; a node's children are the nodes naming it, in
\* the order of the sequence.  ChildrenOf gives node.children.
ChildrenOf(tree, p) ==
    LET S == {n \in 1..Len(tree) : tree[n].parent = p}
        RECURSIVE asc(_)
        asc(T) == IF T = {} THEN <<>>
                  ELSE LET m == CHOOSE x \in T : \A y \in T : x <= y
                       IN <<m>> \o asc(T \ {m})
    IN asc(S)

\* /[\u4e00-\u9fa5\u3000-\u303f\uff00-\uffef]/.test(char), on the characters of
\* the model's labels
IsChinese(c) == c \in {"u4e2d", "u5fc3", "u4e3b", "u9898"}

getFontConfig(level) ==
    CASE level = 0 -> [chineseWidth |-> 22, englishWidth |-> 12, padding |-> 56, baseHeight |-> 52]
      [] level = 1 -> [chineseWidth |-> 18, englishWidth |-> 10, padding |-> 28, baseHeight |-> 36]
      [] level = 2 -> [chineseWidth |-> 16, englishWidth |-> 9, padding |-> 24, baseHeight |-> 32]
      [] level = 3 -> [chineseWidth |-> 14, englishWidth |-> 8, padding |-> 20, baseHeight |-> 30]
      [] OTHER -> [chineseWidth |-> 13, englishWidth |-> 7, padding |-> 20, baseHeight |-> 28]

\* Mutant: every character has the width of a narrow one
textWidth_AllNarrow(text, fontConfig) == Len(text) * fontConfig.englishWidth

\* The loop over the characters of the label
RECURSIVE textWidth(_, _)
textWidth(text, fontConfig) ==
    IF text = <<>> THEN 0
    ELSE (IF IsChinese(Head(text)) THEN fontConfig.chineseWidth
          ELSE fontConfig.englishWidth) + textWidth(Tail(text), fontConfig)

\* Mutant: the 14 units of the range below 350 are not carried over
nodeDimension_NoCarry(node) ==
    LET fontConfig == getFontConfig(node.level)
        estimatedWidth == Max(60, textWidth(node.text, fontConfig) + fontConfig.padding)
        extraHeight ==
            IF estimatedWidth > 180
            THEN IF estimatedWidth <= 350
                 THEN (estimatedWidth - 180) \div 12
                 ELSE (estimatedWidth - 350) \div 10
            ELSE 0
        estimatedHeight == IF node.id = "root" THEN fontConfig.baseHeight
                           ELSE fontConfig.baseHeight + extraHeight
    IN [width |-> estimatedWidth, height |-> estimatedHeight]

\* The body of the loop of calculateNodeDimensions, for one node
nodeDimension(node) ==
    LET fontConfig == getFontConfig(node.level)
        estimatedWidth == Max(60, textWidth(node.text, fontConfig) + fontConfig.padding)
        isRoot == node.id = "root"
        extraHeight ==
            IF estimatedWidth > 180
            THEN IF estimatedWidth <= 350
                 THEN (estimatedWidth - 180) \div 12
                 ELSE 14 + ((estimatedWidth - 350) \div 10)
            ELSE 0
        estimatedHeight == IF isRoot THEN fontConfig.baseHeight
                           ELSE fontConfig.baseHeight + extraHeight
    IN [width |-> estimatedWidth, height |-> estimatedHeight]

\* The dimension map, over the ids of all nodes (getAllNodes)
calculateNodeDimensions(tree) ==
    [id \in {tree[n].id : n \in 1..Len(tree)} |->
        nodeDimension(tree[CHOOSE n \in 1..Len(tree) : tree[n].id = id])]

\* Mutant: the children's stack does not count
calculateNodeBranchHeight_OwnOnly(tree, n, dimensions, verticalSpacing) ==
    Max(dimensions[tree[n].id].height, 32)

RECURSIVE calculateNodeBranchHeight(_, _, _, _)
RECURSIVE calculateSubtreeHeight(_, _, _, _)

\* Sum of the branch heights of the nodes ns, the spacing between them not added
RECURSIVE sumBranchHeights(_, _, _, _)
sumBranchHeights(tree, ns, dimensions, verticalSpacing) ==
    IF ns = <<>> THEN 0
    ELSE calculateNodeBranchHeight(tree, Head(ns), dimensions, verticalSpacing)
         + sumBranchHeights(tree, Tail(ns), dimensions, verticalSpacing)

\* Mutant: the spacing between the nodes is left out
calculateSubtreeHeight_NoSpacing(tree, ns, dimensions, verticalSpacing) ==
    IF Len(ns) = 0 THEN 0
    ELSE sumBranchHeights(tree, ns, dimensions, verticalSpacing)

calculateSubtreeHeight(tree, ns, dimensions, verticalSpacing) ==
    IF Len(ns) = 0 THEN 0
    ELSE sumBranchHeights(tree, ns, dimensions, verticalSpacing)
         + (Len(ns) - 1) * verticalSpacing

\* Mutant: the children are counted whether the node is expanded or not
calculateNodeBranchHeight_IgnoreExpanded(tree, n, dimensions, verticalSpacing) ==
    LET nodeHeight == dimensions[tree[n].id].height
        minBranchHeight == Max(nodeHeight, 32)
        children == ChildrenOf(tree, n)
    IN IF Len(children) > 0
       THEN Max(minBranchHeight,
                calculateSubtreeHeight(tree, children, dimensions, verticalSpacing))
       ELSE minBranchHeight

calculateNodeBranchHeight(tree, n, dimensions, verticalSpacing) ==
    LET nodeHeight == dimensions[tree[n].id].height
        minBranchHeight == Max(nodeHeight, 32)
        children == ChildrenOf(tree, n)
    IN IF tree[n].expanded /\ Len(children) > 0
       THEN Max(minBranchHeight,
                calculateSubtreeHeight(tree, children, dimensions, verticalSpacing))
       ELSE minBranchHeight

\* Coordinates are kept in fiftieths: x and y of a position are 50 times the
\* source's x and y.  Half of an integer n is 25 * n fiftieths.
Half(n) == 25 * n
Whole(n) == 50 * n

NoParent == "undefined"

\* Mutant: the entry is written without its parentId
position_NoParentId(tree, n, dimensions, x, y, parentId) ==
    [id |-> tree[n].id, text |-> tree[n].text, x |-> x, y |-> y,
     width |-> dimensions[tree[n].id].width,
     height |-> dimensions[tree[n].id].height,
     level |-> tree[n].level,
     hasChildren |-> Len(ChildrenOf(tree, n)) > 0,
     expanded |-> tree[n].expanded,
     parentId |-> NoParent]

position(tree, n, dimensions, x, y, parentId) ==
    [id |-> tree[n].id, text |-> tree[n].text, x |-> x, y |-> y,
     width |-> dimensions[tree[n].id].width,
     height |-> dimensions[tree[n].id].height,
     level |-> tree[n].level,
     hasChildren |-> Len(ChildrenOf(tree, n)) > 0,
     expanded |-> tree[n].expanded,
     parentId |-> parentId]

\* positions.set(id, p)
MapSet(map, id, p) == [k \in DOMAIN map \cup {id} |-> IF k = id THEN p ELSE map[k]]

Sign(direction) == IF direction = "left" THEN -1 ELSE 1

RECURSIVE layoutChildBranch(_, _, _, _, _, _, _, _, _)
RECURSIVE placeChildren(_, _, _, _, _, _, _, _, _, _)

\* Mutant: the offset is not moved on after a child
RECURSIVE placeChildren_NoAdvance(_, _, _, _, _, _, _, _, _, _)
placeChildren_NoAdvance(tree, ns, pos, dimensions, anchorX, yOffset, parentId, direction, horizontalSpacing, verticalSpacing) ==
    IF ns = <<>> THEN pos
    ELSE LET child == Head(ns)
             childDim == dimensions[tree[child].id]
             branchHeight == calculateNodeBranchHeight(tree, child, dimensions, verticalSpacing)
             y == yOffset + Half(branchHeight)
             x == anchorX + Sign(direction) * Half(childDim.width)
             placed == MapSet(pos, tree[child].id,
                              position(tree, child, dimensions, x, y, parentId))
             below == IF tree[child].expanded /\ Len(ChildrenOf(tree, child)) > 0
                      THEN layoutChildBranch(tree, child, placed, dimensions, x, y,
                                             direction, horizontalSpacing, verticalSpacing)
                      ELSE placed
         IN placeChildren_NoAdvance(tree, Tail(ns), below, dimensions, anchorX,
                                    yOffset, parentId, direction, horizontalSpacing,
                                    verticalSpacing)

\* The for loop over the children ns: lines 379-421, and with the root as the
\* parent lines 217-253 and 264-300
placeChildren(tree, ns, pos, dimensions, anchorX, yOffset, parentId, direction, horizontalSpacing, verticalSpacing) ==
    IF ns = <<>> THEN pos
    ELSE LET child == Head(ns)
             childDim == dimensions[tree[child].id]
             branchHeight == calculateNodeBranchHeight(tree, child, dimensions, verticalSpacing)
             y == yOffset + Half(branchHeight)
             x == anchorX + Sign(direction) * Half(childDim.width)
             placed == MapSet(pos, tree[child].id,
                              position(tree, child, dimensions, x, y, parentId))
             below == IF tree[child].expanded /\ Len(ChildrenOf(tree, child)) > 0
                      THEN layoutChildBranch(tree, child, placed, dimensions, x, y,
                                             direction, horizontalSpacing, verticalSpacing)
                      ELSE placed
         IN placeChildren(tree, Tail(ns), below, dimensions, anchorX,
                          yOffset + Whole(branchHeight) + Whole(verticalSpacing),
                          parentId, direction, horizontalSpacing, verticalSpacing)

\* Mutant: the spacing multiplier is 0.8 at every level
layoutChildBranch_FlatGap(tree, parent, pos, dimensions, currentX, currentY, direction, horizontalSpacing, verticalSpacing) ==
    IF ~tree[parent].expanded \/ Len(ChildrenOf(tree, parent)) = 0 THEN pos
    ELSE LET sign == Sign(direction)
             parentDim == dimensions[tree[parent].id]
             hGap == 24 * horizontalSpacing
             anchorX == currentX + sign * (Half(parentDim.width) + hGap)
             totalSubtreeHeight ==
                 calculateSubtreeHeight(tree, ChildrenOf(tree, parent), dimensions,
                                        verticalSpacing)
             yOffset == currentY - Half(totalSubtreeHeight)
         IN placeChildren(tree, ChildrenOf(tree, parent), pos, dimensions, anchorX,
                          yOffset, tree[parent].id, direction, horizontalSpacing,
                          verticalSpacing)

layoutChildBranch(tree, parent, pos, dimensions, currentX, currentY, direction, horizontalSpacing, verticalSpacing) ==
    IF ~tree[parent].expanded \/ Len(ChildrenOf(tree, parent)) = 0 THEN pos
    ELSE LET sign == Sign(direction)
             parentDim == dimensions[tree[parent].id]
             \* horizontalSpacing * spacingMultiplier * 0.6, in fiftieths
             hGap == IF tree[parent].level >= 2 THEN 30 * horizontalSpacing
                     ELSE 24 * horizontalSpacing
             anchorX == currentX + sign * (Half(parentDim.width) + hGap)
             totalSubtreeHeight ==
                 calculateSubtreeHeight(tree, ChildrenOf(tree, parent), dimensions,
                                        verticalSpacing)
             yOffset == currentY - Half(totalSubtreeHeight)
         IN placeChildren(tree, ChildrenOf(tree, parent), pos, dimensions, anchorX,
                          yOffset, tree[parent].id, direction, horizontalSpacing,
                          verticalSpacing)

\* Mutant: the smaller half goes left
leftCount_Floor(n) == n \div 2

\* Math.ceil(children.length / 2)
leftCount(n) == (n + 1) \div 2

calculateBothDirectionLayout(tree, dimensions, opts) ==
    LET horizontalSpacing == opts.horizontalSpacing
        verticalSpacing == opts.verticalSpacing
        centerOffset == opts.centerOffset
        rootDim == dimensions[tree[1].id]
        pos0 == MapSet(<<>>, tree[1].id,
                       position(tree, 1, dimensions, Whole(centerOffset), 0, NoParent))
        children == ChildrenOf(tree, 1)
        leftChildren == SubSeq(children, 1, leftCount(Len(children)))
        rightChildren == SubSeq(children, leftCount(Len(children)) + 1, Len(children))
        leftHeight == calculateSubtreeHeight(tree, leftChildren, dimensions, verticalSpacing)
        leftAnchorX == Whole(centerOffset) - Half(rootDim.width) - Half(horizontalSpacing)
        posLeft == IF Len(leftChildren) > 0
                   THEN placeChildren(tree, leftChildren, pos0, dimensions, leftAnchorX,
                                      0 - Half(leftHeight), tree[1].id, "left",
                                      horizontalSpacing, verticalSpacing)
                   ELSE pos0
        rightHeight == calculateSubtreeHeight(tree, rightChildren, dimensions, verticalSpacing)
        rightAnchorX == Whole(centerOffset) + Half(rootDim.width) + Half(horizontalSpacing)
    IN IF Len(children) = 0 THEN pos0
       ELSE IF Len(rightChildren) > 0
            THEN placeChildren(tree, rightChildren, posLeft, dimensions, rightAnchorX,
                               0 - Half(rightHeight), tree[1].id, "right",
                               horizontalSpacing, verticalSpacing)
            ELSE posLeft

calculateSingleDirectionLayout(tree, dimensions, opts) ==
    LET pos0 == MapSet(<<>>, tree[1].id, position(tree, 1, dimensions, 0, 0, NoParent))
    IN layoutChildBranch(tree, 1, pos0, dimensions, 0, 0, opts.direction,
                         opts.horizontalSpacing, opts.verticalSpacing)

calculateLayout(tree, opts) ==
    LET dimensions == calculateNodeDimensions(tree) IN
    IF opts.direction = "both"
    THEN calculateBothDirectionLayout(tree, dimensions, opts)
    ELSE calculateSingleDirectionLayout(tree, dimensions, opts)

\* The labels of the trees laid out: a short one, and one of 12 wide
\* characters, which is wide enough for extra height at levels 1 and 2
ShortText == <<"a", "b">>
LongText == [k \in 1..12 |-> "u4e2d"]

MaxNodes == 4

\* Node n is below node a in the parent map p
RECURSIVE IsBelow(_, _, _)
IsBelow(p, n, a) == n > 1 /\ (p[n] = a \/ IsBelow(p, p[n], a))

RECURSIVE Depth(_, _)
Depth(p, n) == IF n = 1 THEN 0 ELSE 1 + Depth(p, p[n])

\* Parent maps of trees of n nodes numbered in the order the parser makes them:
\* the parent of a node is the node before it or one of that node's ancestors
ParentMaps(n) ==
    {p \in [1..n -> 0..n] :
        /\ p[1] = 0
        /\ \A k \in 2..n : p[k] = k - 1 \/ IsBelow(p, k - 1, p[k])}

\* The tree of n nodes with parent map p, expand flags e and labels t
\* (ShortText or LongText): the levels are the depths below a short root and
\* one more below a long root (a root taken from a heading, whose
\* sub-headings start at level 2)
MakeTree(n, p, e, t) ==
    [k \in 1..n |->
        [id |-> IF k = 1 THEN "root" ELSE NodeId(k - 2),
         text |-> t[k],
         level |-> IF k = 1 THEN 0
                   ELSE Depth(p, k) + (IF t[1] = LongText THEN 1 ELSE 0),
         parent |-> p[k],
         expanded |-> e[k]]]

\* The trees laid out: every shape of up to MaxNodes nodes, every assignment
\* of expand flags, each label short or long
IsTree(tree) ==
    \E n \in 1..MaxNodes :
        \E p \in ParentMaps(n), e \in [1..n -> BOOLEAN],
           t \in [1..n -> {ShortText, LongText}] :
            tree = MakeTree(n, p, e, t)

\* The options laid out with: calculateLayout's defaults with an offset, the
\* renderer's, and no spacing at all
OptionSets ==
    { [direction |-> d, horizontalSpacing |-> o[1], verticalSpacing |-> o[2],
       centerOffset |-> o[3]] :
      d \in {"left", "right", "both"},
      o \in {<<140, 16, -20>>, <<140, 20, 0>>, <<0, 0, 35>>} }

\* The renderer's effect on the parsed tree (part_005, lines 67 and 72-89):
\* calculateLayout with its spacings of 140 and 20, in any direction
LayoutParsed ==
    /\ pc = "done"
    /\ ~thrown
    /\ lpc = "idle"
    /\ root' = nodes
    /\ \E opts \in OptionSets :
          /\ opts.horizontalSpacing = 140 /\ opts.verticalSpacing = 20
          /\ options' = opts
          /\ positions' = calculateLayout(nodes, opts)
    /\ nodeDimensions' = calculateNodeDimensions(nodes)
    /\ lpc' = "done"
    /\ UNCHANGED <<links, parseVars, taskVars>>

ParseNext ==
    FindRoot \/ BlankLine \/ HeadingLine \/ ListLine \/ TextLine \/ Return \/ LayoutParsed

ParseSpec == ParseInit /\ [][ParseNext]_vars

\* A list line with the other bullet character
SwapBullet(line) ==
    [line EXCEPT ![leadingSpaces(line) + 1] = IF @ = "-" THEN "*" ELSE "-"]

\* The list lines of a text: the lines the list pattern matches
ListLinesOf(ls) ==
    {k \in 1..Len(ls) : /\ ~headingMatch(trim(ls[k])).matched
                         /\ listMatch(trim(ls[k])).matched}

\* The texts got from ls by giving some of its list lines the other bullet
BulletVariants(ls) ==
    {[k \in 1..Len(ls) |-> IF k \in S THEN SwapBullet(ls[k]) ELSE ls[k]] :
        S \in (SUBSET ListLinesOf(ls)) \ {{}}}

\* parseMarkdown is called again once it has returned: with the same text,
\* with a text that differs in bullets only or with the text of the test,
\* and a third time with the first text.  Every variable of the function is
\* local to the call: the model keeps the old values until the declarations
\* of the new call (FindRoot) have run.
CallAgain ==
    /\ pc = "done"
    /\ ~thrown
    /\ lpc = "idle"
    /\ \/ /\ returned = <<>>
          /\ lines' \in {lines, IndentedTextExample} \cup BulletVariants(lines)
       \/ /\ Len(returned) = 1
          /\ lines # returned[1].lines
          /\ lines' = returned[1].lines
    /\ returned' = Append(returned, [lines |-> lines, nodes |-> nodes])
    /\ pc' = "findRoot"
    /\ UNCHANGED <<idx, nodes, stack, nodeIdCounter, currentBaseLevel, isFirstHeading,
                   thrown, emittedAt, layoutVars, taskVars>>

RepeatNext ==
    FindRoot \/ BlankLine \/ HeadingLine \/ ListLine \/ TextLine \/ Return \/ CallAgain

RepeatSpec == ParseInit /\ [][RepeatNext]_vars

ParseIdle ==
    /\ lines = <<>>
    /\ pc = "idle"
    /\ idx = 0
    /\ nodes = <<>>
    /\ stack = <<>>
    /\ nodeIdCounter = 0
    /\ currentBaseLevel = 0
    /\ isFirstHeading = TRUE
    /\ thrown = FALSE
    /\ emittedAt = <<>>
    /\ returned = <<>>

LayoutInit ==
    /\ IsTree(root)
    /\ options = NoOptions
    /\ positions = NoPositions
    /\ nodeDimensions = NoDimensions
    /\ links = NoLinks
    /\ lpc = "call"
    /\ ParseIdle
    /\ TaskIdle

\* calculateLayout(root, opts) with direction 'both'
LayoutBoth ==
    /\ lpc = "call"
    /\ \E opts \in OptionSets :
          /\ opts.direction = "both"
          /\ options' = opts
          /\ positions' = calculateLayout(root, opts)
    /\ nodeDimensions' = calculateNodeDimensions(root)
    /\ lpc' = "done"
    /\ UNCHANGED <<root, links, parseVars, taskVars>>

\* calculateLayout(root, opts) with direction 'left' or 'right'
LayoutSingle ==
    /\ lpc = "call"
    /\ \E opts \in OptionSets :
          /\ opts.direction # "both"
          /\ options' = opts
          /\ positions' = calculateLayout(root, opts)
    /\ nodeDimensions' = calculateNodeDimensions(root)
    /\ lpc' = "done"
    /\ UNCHANGED <<root, links, parseVars, taskVars>>

\* generateLinkPath(from, to): the numbers of the path 'M fromX fromY C cp1x
\* cp1y, cp2x cp2y, toX toY', in hundredths (positions hold x and y in
\* fiftieths, and controlOffset is half of a difference of two of them)
generateLinkPath(from, to) ==
    LET isLeftBranch == to.x < from.x
        isFromRoot == from.id = "root"
        fromX == IF isLeftBranch THEN 2 * from.x - 2 * Half(from.width)
                 ELSE 2 * from.x + 2 * Half(from.width)
        fromY == IF isFromRoot THEN 2 * from.y ELSE 2 * from.y + 2 * Half(from.height)
        toX == IF isLeftBranch THEN 2 * to.x + 2 * Half(to.width)
               ELSE 2 * to.x - 2 * Half(to.width)
        toY == 2 * to.y + 2 * Half(to.height)
        dx == IF toX - fromX < 0 THEN fromX - toX ELSE toX - fromX
        controlOffset == dx \div 2
    IN [fromX |-> fromX, fromY |-> fromY,
        cp1x |-> IF isLeftBranch THEN fromX - controlOffset ELSE fromX + controlOffset,
        cp1y |-> fromY,
        cp2x |-> IF isLeftBranch THEN toX + controlOffset ELSE toX - controlOffset,
        cp2y |-> toY,
        toX |-> toX, toY |-> toY]

\* The renderer's links (part_005, lines 665-680): a path for every position
\* that names a parent which has a position
RenderLinks ==
    /\ lpc = "done"
    /\ links' = [id \in {k \in DOMAIN positions :
                            /\ positions[k].parentId # NoParent
                            /\ positions[k].parentId \in DOMAIN positions} |->
                   generateLinkPath(positions[positions[id].parentId], positions[id])]
    /\ lpc' = "linked"
    /\ UNCHANGED <<root, options, positions, nodeDimensions, parseVars, taskVars>>

LayoutNext == LayoutBoth \/ LayoutSingle \/ RenderLinks

LayoutSpec == LayoutInit /\ [][LayoutNext]_vars

-----------------------------------------------------------------------------
(* calculateNodeDimensions on labels of many widths *)

MaxChinese == 24
MaxLevel == 5

\* The numbers of narrow characters in a measured label
EnglishCounts == {0, 4, 10}

\* A label of c wide characters followed by e narrow ones
MeasuredText(c, e) == [k \in 1..(c + e) |-> IF k <= c THEN "u4e2d" ELSE "a"]

\* The trees measured: a root, expanded with a short label or collapsed with
\* a long one, and two children of one level, each with a label of up to
\* MaxChinese wide characters and 0, 4 or 10 narrow ones
IsMeasuredTree(tree) ==
    \E l \in 1..MaxLevel : \E ca, cb \in 0..MaxChinese : \E ea, eb \in EnglishCounts :
      \E rt \in {ShortText, LongText} :
        tree = << [id |-> "root", text |-> rt, level |-> 0, parent |-> 0,
                   expanded |-> (rt = ShortText)],
                  [id |-> NodeId(0), text |-> MeasuredText(ca, ea), level |-> l,
                   parent |-> 1, expanded |-> FALSE],
                  [id |-> NodeId(1), text |-> MeasuredText(cb, eb), level |-> l,
                   parent |-> 1, expanded |-> FALSE] >>

DimensionInit ==
    /\ IsMeasuredTree(root)
    /\ options = NoOptions
    /\ positions = NoPositions
    /\ nodeDimensions = NoDimensions
    /\ links = NoLinks
    /\ lpc = "measure"
    /\ ParseIdle
    /\ TaskIdle

\* Lines 61-62: calculateNodeDimensions(getAllNodes(root), ...)
Measure ==
    /\ lpc = "measure"
    /\ nodeDimensions' = calculateNodeDimensions(root)
    /\ lpc' = "measured"
    /\ UNCHANGED <<root, options, positions, links, parseVars, taskVars>>

DimensionNext == Measure

DimensionSpec == DimensionInit /\ [][DimensionNext]_vars

Measured == lpc = "measured"

Dim(n) == nodeDimensions[root[n].id]

\* The height a node got over the base height of its level
ExtraHeight(n) == Dim(n).height - getFontConfig(root[n].level).baseHeight

\* C11: of two nodes of one level the wider is at least as high as the other;
\* a node of width 500 that is not the root gets more extra height than one
\* of width 200.
C11_WiderIsTaller ==
    Measured =>
        \A a, b \in 1..Len(root) :
            /\ (root[a].level = root[b].level /\ Dim(a).width > Dim(b).width)
                  => Dim(a).height >= Dim(b).height
            /\ (a > 1 /\ b > 1 /\ Dim(a).width = 500 /\ Dim(b).width = 200)
                  => ExtraHeight(a) > ExtraHeight(b)

\* Two measured siblings, of widths 500 and 200
C11_Witness ==
    /\ Measured
    /\ Dim(2).width = 500 /\ Dim(3).width = 200

\* Two measured siblings on the two sides of the threshold of 350
C11_WitnessThreshold ==
    /\ Measured
    /\ Dim(2).width > 350 /\ Dim(2).width < 360
    /\ Dim(3).width <= 350 /\ Dim(3).width > 340

\* The extra height of a node of width w that is not the root
ExtraClaimed(w) ==
    IF w <= 180 THEN 0
    ELSE IF w <= 350 THEN (w - 180) \div 12
    ELSE 14 + ((w - 350) \div 10)

\* The width of node n: the padding of its level and the widths of its
\* characters, 60 at least
WidthClaimed(n) ==
    LET row == getFontConfig(root[n].level)
        wide == Cardinality({k \in 1..Len(root[n].text) : IsChinese(root[n].text[k])})
        w == row.padding + wide * row.chineseWidth
             + (Len(root[n].text) - wide) * row.englishWidth
    IN IF w < 60 THEN 60 ELSE w

\* C24: the dimension map has an entry for every node of the tree, below a
\* collapsed node or not; its width is max(60, padding + widths of the
\* characters) by the row of the node's level; the root's height is the base
\* height of its row whatever its width, the height of any other node the base
\* height of its row + the extra height of its width.
C24_Dimensions ==
    Measured =>
        /\ DOMAIN nodeDimensions = {root[n].id : n \in 1..Len(root)}
        /\ \A n \in 1..Len(root) :
              /\ Dim(n).width = WidthClaimed(n)
              /\ Dim(n).height =
                    IF n = 1 THEN getFontConfig(root[n].level).baseHeight
                    ELSE getFontConfig(root[n].level).baseHeight
                         + ExtraClaimed(WidthClaimed(n))

\* A collapsed root wide enough for extra height, a child of the least width
\* and a child wider than 350
C24_Witness ==
    /\ Measured
    /\ ~root[1].expanded /\ Dim(1).width > 180
    /\ Len(root[2].text) = 0 /\ Dim(2).width = 60
    /\ Dim(3).width > 350 /\ root[3].level >= 4

-----------------------------------------------------------------------------
(* TaskManager, src/src/background/taskManager.ts *)

\* The task manager lives in a service worker.  Each action below is one
\* run of the event loop: the synchronous code from the event that resumes
\* an await to the next await.  chrome.storage.local answers its calls in the
\* order they were made; a set call carries the array as it was when the call
\* was made.  The browser may stop the worker at any time and construct a new
\* manager later, which keeps the storage and loses the memory.

MaxTasks == 3
MaxRestarts == 1

IsFinal(status) == status \in {"completed", "failed"}

\* Map.prototype.set: a known key keeps its place
mapSet(map, task) ==
    IF \E i \in 1..Len(map) : map[i].id = task.id
    THEN [i \in 1..Len(map) |-> IF map[i].id = task.id THEN task ELSE map[i]]
    ELSE Append(map, task)

\* task.status = status, on the task object held in the map
withStatus(map, id, status) ==
    [i \in 1..Len(map) |->
        IF map[i].id = id THEN [map[i] EXCEPT !.status = status] ELSE map[i]]

typeOf(map, id) == LET i == CHOOSE i \in 1..Len(map) : map[i].id = id IN map[i].type

\* Lines 27-33: only the tasks that are not finished are restored, as pending
RECURSIVE restore(_, _)
restore(map, arr) ==
    IF arr = <<>> THEN map
    ELSE LET task == Head(arr) IN
         restore(IF ~IsFinal(task.status)
                 THEN mapSet(map, [task EXCEPT !.status = "pending"])
                 ELSE map,
                 Tail(arr))

\* Lines 44-49: the set call is made with the array of the tasks as they are
\* now; then names what runs when it is answered
saveTasks(q, map, then) == Append(q, [tasksArray |-> map, then |-> then])

\* Lines 105-106: the index of the first pending task, 0 if there is none
firstPending(map) ==
    IF \E i \in 1..Len(map) : map[i].status = "pending"
    THEN CHOOSE i \in 1..Len(map) :
            /\ map[i].status = "pending"
            /\ \A j \in 1..(i - 1) : map[j].status # "pending"
    ELSE 0

\* Mutant: the queue is processed whether a task is being executed or not
processQueue_NoGuard(map, busy, cur, at, q) ==
    LET i == firstPending(map) IN
    IF i = 0
    THEN [tasks |-> map, isProcessing |-> busy, current |-> cur, epc |-> at, writes |-> q]
    ELSE LET running == withStatus(map, map[i].id, "running") IN
         [tasks |-> running, isProcessing |-> TRUE, current |-> map[i].id,
          epc |-> "starting", writes |-> saveTasks(q, running, "execute")]

\* Lines 100-115 and 131-133: processQueue up to the first await of the
\* executeTask it calls
processQueue(map, busy, cur, at, q) ==
    LET i == firstPending(map) IN
    IF busy \/ i = 0
    THEN [tasks |-> map, isProcessing |-> busy, current |-> cur, epc |-> at, writes |-> q]
    ELSE LET running == withStatus(map, map[i].id, "running") IN
         [tasks |-> running, isProcessing |-> TRUE, current |-> map[i].id,
          epc |-> "starting", writes |-> saveTasks(q, running, "execute")]

\* The manager is constructed in a browser that holds nothing under the key
TaskInit ==
    /\ tasks = <<>>
    /\ isProcessing = FALSE
    /\ stored = <<>>
    /\ storedTasks = <<>>
    /\ rpc = "get"
    /\ writes = <<>>
    /\ current = 0
    /\ epc = "idle"
    /\ nextId = 1
    /\ restarts = 0
    /\ ended = {}
    /\ createdBy = <<>>
    /\ ParseIdle
    /\ LayoutIdle

\* Lines 22-35: the get is answered and the loop runs
RestoreTasks ==
    /\ rpc = "get"
    /\ tasks' = restore(tasks, storedTasks)
    /\ rpc' = "done"
    /\ UNCHANGED <<isProcessing, stored, storedTasks, writes, current, epc, nextId,
                   restarts, ended, createdBy, parseVars, layoutVars>>

\* Lines 59-70 and 80-91: the task is put into the map and the save is called
createTask(type, creator, then) ==
    /\ nextId <= MaxTasks
    /\ LET task == [id |-> nextId, type |-> type, status |-> "pending"]
           map == mapSet(tasks, task)
       IN /\ tasks' = map
          /\ writes' = saveTasks(writes, map, then)
    /\ nextId' = nextId + 1
    /\ createdBy' = Append(createdBy, creator)

\* Lines 58-70, called by the message handler
CreateDownloadTask ==
    /\ rpc # "off"
    /\ createTask("download_subtitle", 0, "processQueue")
    /\ UNCHANGED <<isProcessing, stored, storedTasks, rpc, current, epc, restarts,
                   ended, parseVars, layoutVars>>

\* Lines 79-91, called by the message handler
CreateMindmapTask ==
    /\ rpc # "off"
    /\ createTask("generate_mindmap", 0, "processQueue")
    /\ UNCHANGED <<isProcessing, stored, storedTasks, rpc, current, epc, restarts,
                   ended, parseVars, layoutVars>>

\* The oldest set call is answered: the array is in the storage
answered(then) ==
    /\ writes # <<>>
    /\ Head(writes).then = then
    /\ stored' = Head(writes).tasksArray

\* Lines 71 and 92: the save of a created task is answered, processQueue()
Created ==
    /\ answered("processQueue")
    /\ LET r == processQueue(tasks, isProcessing, current, epc, Tail(writes)) IN
          /\ tasks' = r.tasks
          /\ isProcessing' = r.isProcessing
          /\ current' = r.current
          /\ epc' = r.epc
          /\ writes' = r.writes
    /\ UNCHANGED <<storedTasks, rpc, nextId, restarts, ended, createdBy, parseVars,
                   layoutVars>>

\* Lines 133-141: the save of the running status is answered and the work of
\* the task begins
Started ==
    /\ answered("execute")
    /\ epc' = "work"
    /\ writes' = Tail(writes)
    /\ UNCHANGED <<tasks, isProcessing, storedTasks, rpc, current, nextId, restarts,
                   ended, createdBy, parseVars, layoutVars>>

\* Lines 157-162: the subtitle is there, the mind-map task is created
DownloadSucceeded ==
    /\ epc = "work"
    /\ typeOf(tasks, current) = "download_subtitle"
    /\ createTask("generate_mindmap", current, "follow")
    /\ epc' = "follow"
    /\ UNCHANGED <<isProcessing, stored, storedTasks, rpc, current, restarts, ended,
                   parseVars, layoutVars>>

\* Lines 92-94, 162 and 146-148: the save of the mind-map task is answered,
\* createMindmapTask calls processQueue() and returns to the download task,
\* which is completed and saved
FollowUpCreated ==
    /\ answered("follow")
    /\ LET r == processQueue(tasks, isProcessing, current, epc, Tail(writes))
           completed == withStatus(r.tasks, current, "completed")
       IN /\ tasks' = completed
          /\ isProcessing' = r.isProcessing
          /\ current' = current
          /\ epc' = "finishing"
          /\ writes' = saveTasks(r.writes, completed, "return")
    /\ UNCHANGED <<storedTasks, rpc, nextId, restarts, ended, createdBy, parseVars,
                   layoutVars>>

\* Lines 172-207 and 146-148: the mind map is made, the task is completed and
\* saved
MindmapSucceeded ==
    /\ epc = "work"
    /\ typeOf(tasks, current) = "generate_mindmap"
    /\ LET completed == withStatus(tasks, current, "completed") IN
          /\ tasks' = completed
          /\ writes' = saveTasks(writes, completed, "return")
    /\ epc' = "finishing"
    /\ UNCHANGED <<isProcessing, stored, storedTasks, rpc, current, nextId, restarts,
                   ended, createdBy, parseVars, layoutVars>>

\* Lines 116-124: the work of the task throws (the download, the configuration
\* or the model fails); the task is failed and the queue processed
ExecutionFailed ==
    /\ epc = "work"
    /\ LET failed == withStatus(tasks, current, "failed")
           r == processQueue(failed, FALSE, 0, "idle", writes)
       IN /\ tasks' = r.tasks
          /\ isProcessing' = r.isProcessing
          /\ current' = r.current
          /\ epc' = r.epc
          /\ writes' = r.writes
    /\ ended' = ended \cup {current}
    /\ UNCHANGED <<stored, storedTasks, rpc, nextId, restarts, createdBy, parseVars,
                   layoutVars>>

\* Lines 148-149 and 121-124: the save of the completed status is answered,
\* executeTask returns and the queue is processed
Completed ==
    /\ answered("return")
    /\ LET r == processQueue(tasks, FALSE, 0, "idle", Tail(writes)) IN
          /\ tasks' = r.tasks
          /\ isProcessing' = r.isProcessing
          /\ current' = r.current
          /\ epc' = r.epc
          /\ writes' = r.writes
    /\ ended' = ended \cup {current}
    /\ UNCHANGED <<storedTasks, rpc, nextId, restarts, createdBy, parseVars,
                   layoutVars>>

\* Lines 327-337: the hourly clean-up, no task being older than 24 hours
CleanupExpiredTasks ==
    /\ rpc # "off"
    /\ \A i \in 1..Len(writes) : writes[i].then # "none"
    /\ writes' = saveTasks(writes, tasks, "none")
    /\ UNCHANGED <<tasks, isProcessing, stored, storedTasks, rpc, current, epc, nextId,
                   restarts, ended, createdBy, parseVars, layoutVars>>

\* Line 337: the save of the clean-up is answered
CleanedUp ==
    /\ answered("none")
    /\ writes' = Tail(writes)
    /\ UNCHANGED <<tasks, isProcessing, storedTasks, rpc, current, epc, nextId, restarts,
                   ended, createdBy, parseVars, layoutVars>>

\* Lines 11-17: the worker is stopped and a new manager constructed.  Of the
\* set calls not answered some first ones have reached the storage; the get of
\* restoreTasks reads what the storage holds then.
Restart ==
    /\ rpc # "off"
    /\ restarts < MaxRestarts
    /\ \E k \in 0..Len(writes) :
          LET kept == IF k = 0 THEN stored ELSE writes[k].tasksArray IN
          /\ stored' = kept
          /\ storedTasks' = kept
    /\ tasks' = <<>>
    /\ isProcessing' = FALSE
    /\ rpc' = "get"
    /\ writes' = <<>>
    /\ current' = 0
    /\ epc' = "idle"
    /\ restarts' = restarts + 1
    /\ UNCHANGED <<nextId, ended, createdBy, parseVars, layoutVars>>

TaskNext ==
    \/ RestoreTasks
    \/ CreateDownloadTask
    \/ CreateMindmapTask
    \/ Created
    \/ Started
    \/ DownloadSucceeded
    \/ FollowUpCreated
    \/ MindmapSucceeded
    \/ ExecutionFailed
    \/ Completed
    \/ CleanupExpiredTasks
    \/ CleanedUp
    \/ Restart

TaskSpec == TaskInit /\ [][TaskNext]_vars

\* Every call of the storage is answered and every execution ends, while the
\* worker lives; nothing obliges a client to create a task, the clean-up to
\* run or the worker to be restarted.
TaskFairness ==
    /\ WF_vars(RestoreTasks)
    /\ WF_vars(Created)
    /\ WF_vars(Started)
    /\ WF_vars(FollowUpCreated)
    /\ WF_vars(Completed)
    /\ WF_vars(CleanedUp)
    /\ WF_vars(DownloadSucceeded \/ MindmapSucceeded \/ ExecutionFailed)

TaskFairSpec == TaskInit /\ [][TaskNext]_vars /\ TaskFairness

-----------------------------------------------------------------------------
(* The position map *)

Laid == lpc = "done"

Placed(n) == root[n].id \in DOMAIN positions
Pos(n) == positions[root[n].id]

\* Node n is the root or hangs below expanded nodes only
RECURSIVE Visible(_)
Visible(n) == n = 1 \/ (root[root[n].parent].expanded /\ Visible(root[n].parent))

\* Node n is a proper descendant of node a
RECURSIVE Under(_, _)
Under(n, a) == n > 1 /\ (root[n].parent = a \/ Under(root[n].parent, a))

Abs(v) == IF v < 0 THEN -v ELSE v

\* The vertical slot of a placed node: its branch height around its y
SlotTop(n) ==
    Pos(n).y - Half(calculateNodeBranchHeight(root, n, nodeDimensions,
                                              options.verticalSpacing))
SlotBottom(n) ==
    Pos(n).y + Half(calculateNodeBranchHeight(root, n, nodeDimensions,
                                              options.verticalSpacing))

\* The side of the parent a placed child is on
OnLeft(n) == Pos(n).x < Pos(root[n].parent).x

\* Placed children a, b of one parent, a before b, on the same side of it
SameGroup(a, b) ==
    /\ a > 1 /\ b > 1 /\ a < b
    /\ root[a].parent = root[b].parent
    /\ Placed(a) /\ Placed(b) /\ Placed(root[a].parent)
    /\ OnLeft(a) = OnLeft(b)

\* C1: the ids in the position map are those of the root and of the nodes
\* below expanded nodes only, whatever the direction and the expand flags, the
\* root's included; the map has as many entries as there are such nodes.
C1_OnlyVisiblePositioned ==
    Laid =>
        /\ DOMAIN positions = {root[n].id : n \in {m \in 1..Len(root) : Visible(m)}}
        /\ Cardinality(DOMAIN positions) = Cardinality({m \in 1..Len(root) : Visible(m)})

\* C2: with spacings >= 0 no two entries of the position map overlap with
\* positive area; sibling slots on one side are vertically disjoint; a node
\* lies within the slot of each ancestor below the root; a child lies beyond
\* its parent's edge on the side the layout grows to.
C2_NoOverlap ==
    (Laid /\ options.horizontalSpacing >= 0 /\ options.verticalSpacing >= 0) =>
        /\ \A a, b \in 1..Len(root) :
              (a # b /\ Placed(a) /\ Placed(b)) =>
                 ~ (/\ Abs(Pos(a).x - Pos(b).x) < Half(Pos(a).width + Pos(b).width)
                    /\ Abs(Pos(a).y - Pos(b).y) < Half(Pos(a).height + Pos(b).height))
        /\ \A a, b \in 1..Len(root) : SameGroup(a, b) => SlotBottom(a) <= SlotTop(b)
        /\ \A d, a \in 2..Len(root) :
              (Under(d, a) /\ Placed(d) /\ Placed(a)) =>
                 /\ SlotTop(a) <= Pos(d).y - Half(Pos(d).height)
                 /\ Pos(d).y + Half(Pos(d).height) <= SlotBottom(a)
        /\ \A c \in 2..Len(root) :
              Placed(c) =>
                 LET q == Pos(root[c].parent)
                     right == Pos(c).x - Half(Pos(c).width) >= q.x + Half(q.width)
                     left == Pos(c).x + Half(Pos(c).width) <= q.x - Half(q.width)
                 IN CASE options.direction = "right" -> right
                      [] options.direction = "left" -> left
                      [] OTHER -> left \/ right

\* A layout of four placed nodes, one of them taller than the least branch
\* height and one a grandchild of the root
C2_Witness ==
    /\ Laid
    /\ Cardinality(DOMAIN positions) = 4
    /\ \E n \in 2..Len(root) : Placed(n) /\ Pos(n).height > 32
    /\ \E n \in 2..Len(root) : Placed(n) /\ root[n].parent # 1
    /\ \E a, b \in 2..Len(root) : SameGroup(a, b)

\* C6: in every direction the root is placed at x = centerOffset, y = 0.
C6_RootAtCenterOffset ==
    Laid => Pos(1).x = Whole(options.centerOffset) /\ Pos(1).y = 0

\* Math.ceil(n / 2), stated by its defining property
CeilHalf(n) == CHOOSE m \in 0..n : 2 * m >= n /\ 2 * m < n + 2

\* C7: under direction 'both' the first ceil(n/2) children of the root are
\* placed left of the root and the others right of it, each half from top to
\* bottom in source order, every placed descendant on the side of its
\* first-level ancestor; two children are both placed at y = 0.
C7_BothSplit ==
    (Laid /\ options.direction = "both") =>
        LET c == ChildrenOf(root, 1)
            n == Len(c)
        IN /\ \A i \in 1..n :
                /\ Placed(c[i])
                /\ i <= CeilHalf(n) => Pos(c[i]).x < Pos(1).x
                /\ i > CeilHalf(n) => Pos(c[i]).x > Pos(1).x
           /\ \A i, j \in 1..n :
                (i < j /\ (j <= CeilHalf(n) \/ i > CeilHalf(n))) => Pos(c[i]).y < Pos(c[j]).y
           /\ \A i \in 1..n : \A d \in 2..Len(root) :
                (Under(d, c[i]) /\ Placed(d)) =>
                   (Pos(d).x < Pos(1).x) = (Pos(c[i]).x < Pos(1).x)
           /\ n = 2 => Pos(c[1]).y = 0 /\ Pos(c[2]).y = 0

\* A root with three children, two left and one right, and a grandchild placed
C7_Witness ==
    /\ Laid /\ options.direction = "both"
    /\ Len(ChildrenOf(root, 1)) = 3
    /\ Cardinality({n \in 2..Len(root) : Placed(n) /\ Pos(n).x < Pos(1).x}) = 2
    /\ Cardinality({n \in 2..Len(root) : Placed(n) /\ Pos(n).x > Pos(1).x}) = 1

\* Two children, one on each side, both at y = 0
C7_WitnessTwo ==
    /\ Laid /\ options.direction = "both"
    /\ Len(ChildrenOf(root, 1)) = 2
    /\ \E d \in 2..Len(root) : Placed(d) /\ root[d].parent # 1

\* The sibling groups of a parent p: its children, in two halves when p is the
\* root and the direction is 'both'
GroupsOf(p) ==
    LET c == ChildrenOf(root, p) IN
    IF p = 1 /\ options.direction = "both"
    THEN {SubSeq(c, 1, CeilHalf(Len(c))), SubSeq(c, CeilHalf(Len(c)) + 1, Len(c))} \ {<<>>}
    ELSE {c} \ {<<>>}

BranchHeightOf(n) ==
    calculateNodeBranchHeight(root, n, nodeDimensions, options.verticalSpacing)

RECURSIVE SumOfBranchHeights(_)
SumOfBranchHeights(g) ==
    IF g = <<>> THEN 0 ELSE BranchHeightOf(Head(g)) + SumOfBranchHeights(Tail(g))

\* C8: for every placed sibling group g of a parent at y = py, with T the sum
\* of the branch heights plus (count - 1) x verticalSpacing: T is the height
\* calculateSubtreeHeight gives, the first slot starts at py - T/2, every child
\* is at the centre of its slot, consecutive slots are verticalSpacing apart
\* and the last slot ends at py + T/2.
C8_StackCentered ==
    Laid =>
        \A p \in 1..Len(root) : \A g \in GroupsOf(p) :
            (Placed(p) /\ Placed(g[1])) =>
                LET T == SumOfBranchHeights(g) + (Len(g) - 1) * options.verticalSpacing
                IN /\ T = calculateSubtreeHeight(root, g, nodeDimensions,
                                                 options.verticalSpacing)
                   /\ \A i \in 1..Len(g) : Placed(g[i])
                   /\ Pos(g[1]).y - Half(BranchHeightOf(g[1])) = Pos(p).y - Half(T)
                   /\ \A i \in 1..(Len(g) - 1) :
                         Pos(g[i + 1]).y - Half(BranchHeightOf(g[i + 1]))
                           = Pos(g[i]).y + Half(BranchHeightOf(g[i]))
                             + Whole(options.verticalSpacing)
                   /\ Pos(g[Len(g)]).y + Half(BranchHeightOf(g[Len(g)])) = Pos(p).y + Half(T)
                   /\ options.verticalSpacing >= 0 =>
                         \A i \in 1..(Len(g) - 1) : SlotBottom(g[i]) <= SlotTop(g[i + 1])

\* A group of two placed siblings below a node that is not the root, with a
\* spacing that is not 0
C8_Witness ==
    /\ Laid
    /\ options.verticalSpacing > 0
    /\ \E p \in 2..Len(root) : \E g \in GroupsOf(p) :
          Placed(p) /\ Len(g) >= 2 /\ Placed(g[1])

\* C9 as stated: of two placed children of one parent the earlier in source
\* order is the higher, in every direction, for the root's children too
\* (stated here for the children of expanded parents).
C9_SiblingOrder_Original ==
    Laid =>
        \A a, b \in 2..Len(root) :
            (/\ a < b /\ root[a].parent = root[b].parent /\ Placed(a) /\ Placed(b)
             /\ Visible(a) /\ Visible(b))
            => Pos(a).y < Pos(b).y

\* C9 amended: of two placed children of one parent that are on the same side
\* of it the earlier in source order is the higher (verticalSpacing >= 0);
\* under 'both' the root's children on different sides are not ordered.
C9_SiblingOrder ==
    (Laid /\ options.verticalSpacing >= 0) =>
        \A a, b \in 2..Len(root) : SameGroup(a, b) => Pos(a).y < Pos(b).y

\* Under 'both', three children of an expanded root: the two on the left are
\* ordered, the third is on the right, level with the root
C9_Witness ==
    /\ Laid /\ options.direction = "both" /\ root[1].expanded
    /\ \E a, b, c \in 2..Len(root) :
          /\ SameGroup(a, b) /\ root[a].parent = 1
          /\ root[c].parent = 1 /\ Placed(c) /\ ~OnLeft(c) /\ OnLeft(a)
          /\ Pos(c).y < Pos(b).y

Linked == lpc = "linked"

\* C12: every link starts on the parent's horizontal edge nearest the child,
\* at the parent's y (root or not), and ends on the child's horizontal edge
\* nearest the parent, at the child's y, x and y being the centre of a node;
\* the edges are the left edge of the parent and the right edge of the child
\* exactly when the child's x is less than the parent's (stated here for
\* the links of a tree whose root is expanded).
C12_LinkAnchors ==
    (Linked /\ root[1].expanded) =>
        \A id \in DOMAIN links :
            LET to == positions[id]
                from == positions[to.parentId]
                l == links[id]
            IN /\ l.fromY = 2 * from.y
               /\ l.toY = 2 * to.y
               /\ IF to.x < from.x
                  THEN /\ l.fromX = 2 * from.x - 2 * Half(from.width)
                       /\ l.toX = 2 * to.x + 2 * Half(to.width)
                  ELSE /\ l.fromX = 2 * from.x + 2 * Half(from.width)
                       /\ l.toX = 2 * to.x - 2 * Half(to.width)

\* The distance, in fiftieths, from the parent's edge to the edge of child c
\* that is nearest to it
GapToParent(c) ==
    LET q == Pos(root[c].parent) IN
    IF OnLeft(c) THEN (q.x - Half(q.width)) - (Pos(c).x + Half(Pos(c).width))
    ELSE (Pos(c).x - Half(Pos(c).width)) - (q.x + Half(q.width))

\* horizontalSpacing x m x 0.6 in fiftieths, m = 1.0 below a parent of level
\* 2 or more and 0.8 otherwise
LevelGap(c) ==
    IF root[root[c].parent].level >= 2 THEN 30 * options.horizontalSpacing
    ELSE 24 * options.horizontalSpacing

\* C20 as stated: in every direction the edge of a positioned node nearest
\* its parent is horizontalSpacing x m x 0.6 beyond the parent's edge, the
\* root's children at 0.48 x horizontalSpacing (stated here for a tree whose
\* root is expanded).
C20_AnchorLine_Original ==
    (Laid /\ root[1].expanded) =>
        \A c \in 2..Len(root) : Placed(c) => GapToParent(c) = LevelGap(c)

\* C20 amended: under 'both' the root's children are 0.5 x horizontalSpacing
\* beyond the root's edge; every other positioned node, and the root's
\* children under 'left' and 'right', are horizontalSpacing x m x 0.6 beyond
\* their parent's edge.  Left of the parent the children are aligned by
\* their right edges, right of it by their left edges.
C20_AnchorLine ==
    Laid =>
        \A c \in 2..Len(root) :
            Placed(c) =>
                /\ GapToParent(c) = IF root[c].parent = 1 /\ options.direction = "both"
                                    THEN Half(options.horizontalSpacing)
                                    ELSE LevelGap(c)
                /\ options.direction = "left" => OnLeft(c)
                /\ options.direction = "right" => ~OnLeft(c)

\* Two siblings of different widths below a parent of level 2, and a child
\* of the root, laid out with a spacing that is not 0
C20_Witness ==
    /\ Laid
    /\ options.horizontalSpacing > 0
    /\ \E a, b \in 2..Len(root) :
          /\ SameGroup(a, b)
          /\ root[root[a].parent].level >= 2
          /\ Pos(a).width # Pos(b).width
    /\ \E c \in 2..Len(root) : Placed(c) /\ root[c].parent = 1

\* The branch height as the claim gives it: the node's height, 32 at least,
\* and for an expanded node with children the stack height of its children
\* if that is more
RECURSIVE BranchHeightClaimed(_)
RECURSIVE StackHeightClaimed(_)
StackHeightClaimed(g) ==
    IF g = <<>> THEN 0
    ELSE IF Len(g) = 1 THEN BranchHeightClaimed(g[1])
    ELSE BranchHeightClaimed(Head(g)) + options.verticalSpacing + StackHeightClaimed(Tail(g))

BranchHeightClaimed(n) ==
    LET own == IF Dim(n).height >= 32 THEN Dim(n).height ELSE 32
        c == ChildrenOf(root, n)
    IN IF root[n].expanded /\ c # <<>> /\ StackHeightClaimed(c) > own
       THEN StackHeightClaimed(c)
       ELSE own

\* C21: the branch height of a node is max(height, 32) when it is collapsed
\* or has no children and max(max(height, 32), stack height of its children)
\* when it is expanded with children, so it is at least 32 and at least the
\* node's height and nothing below a collapsed node counts; the positions of
\* every placed sibling group are those this branch height gives.
C21_BranchHeight ==
    Laid =>
        /\ \A n \in 2..Len(root) :
              /\ BranchHeightOf(n) = BranchHeightClaimed(n)
              /\ BranchHeightOf(n) >= 32
              /\ BranchHeightOf(n) >= Dim(n).height
              /\ ~root[n].expanded => BranchHeightOf(n) = Max(Dim(n).height, 32)
        /\ \A p \in 1..Len(root) : \A g \in GroupsOf(p) :
              (Placed(p) /\ Placed(g[1])) =>
                 /\ Pos(g[1]).y = Pos(p).y - Half(StackHeightClaimed(g))
                                   + Half(BranchHeightClaimed(g[1]))
                 /\ \A i \in 1..(Len(g) - 1) :
                       Pos(g[i + 1]).y - Pos(g[i]).y =
                          Half(BranchHeightClaimed(g[i]) + BranchHeightClaimed(g[i + 1]))
                          + Whole(options.verticalSpacing)

\* An expanded node with two children whose stack is higher than the node
C21_Witness ==
    /\ Laid
    /\ \E n \in 2..Len(root) :
          /\ Placed(n) /\ root[n].expanded
          /\ Len(ChildrenOf(root, n)) = 2
          /\ BranchHeightOf(n) > Max(Dim(n).height, 32)

\* A collapsed node with a child, placed above a sibling
C21_WitnessCollapsed ==
    /\ Laid
    /\ \E a, b \in 2..Len(root) :
          /\ SameGroup(a, b)
          /\ ~root[a].expanded /\ ChildrenOf(root, a) # <<>>

\* C27: in the position map the root's entry has no parentId and every other
\* entry has the id of its parent in the tree, which has an entry too; so the
\* links drawn from the map are one per entry other than the root's, each
\* between two positioned nodes, and the entries form a tree below the root.
C27_ParentIds ==
    (Laid \/ Linked) =>
        /\ Placed(1)
        /\ Pos(1).parentId = NoParent
        /\ DOMAIN positions \subseteq {root[n].id : n \in 1..Len(root)}
        /\ \A n \in 2..Len(root) :
              Placed(n) => /\ Pos(n).parentId = root[root[n].parent].id
                           /\ Placed(root[n].parent)
        /\ Linked => DOMAIN links = DOMAIN positions \ {root[1].id}

\* A map with an entry two levels below the root and a child of the root on
\* either side, with its links drawn
C27_Witness ==
    /\ Linked
    /\ options.direction = "both"
    /\ \E n \in 2..Len(root) :
          /\ Placed(n) /\ root[n].parent # 1
          /\ root[n].id \in DOMAIN links
    /\ \E a, b \in 2..Len(root) :
          /\ root[a].parent = 1 /\ root[b].parent = 1
          /\ Placed(a) /\ Placed(b)
          /\ Pos(a).x < Pos(1).x /\ Pos(b).x > Pos(1).x

-----------------------------------------------------------------------------
(* The parsed tree *)

Done == pc = "done"

RootText == nodes[1].text

\* The nodes made from line k
NodesOfLine(k) == {n \in 2..Len(nodes) : emittedAt[n] = k}

\* A heading line as the outline format defines it: 1 to 6 markers,
\* whitespace, text
IsHeadingLine(line) ==
    LET t == trim(line)
        h == Cardinality({k \in 1..Len(t) : \A j \in 1..k : t[j] = "#"})
    IN h \in 1..6 /\ Len(t) > h + 1 /\ t[h + 1] \in {" ", "\t"}

MarkerCount(line) ==
    LET t == trim(line) IN Cardinality({k \in 1..Len(t) : \A j \in 1..k : t[j] = "#"})

\* The text of a heading line: what follows the markers, trimmed
RawHeadingText(line) ==
    LET t == trim(line) IN trim(SubSeq(t, MarkerCount(line) + 1, Len(t)))

\* The same text without one trailing '-' and the whitespace before it
RECURSIVE DropTrailingSpace(_)
DropTrailingSpace(s) ==
    IF s # <<>> /\ s[Len(s)] \in {" ", "\t"}
    THEN DropTrailingSpace(SubSeq(s, 1, Len(s) - 1))
    ELSE s

Label(line) ==
    LET r == RawHeadingText(line) IN
    IF r # <<>> /\ r[Len(r)] = "-" THEN DropTrailingSpace(SubSeq(r, 1, Len(r) - 1))
    ELSE r

HeadingLines == {k \in 1..Len(lines) : IsHeadingLine(lines[k])}
LabelledHeadings == {k \in HeadingLines : Label(lines[k]) # <<>>}
First(S) == CHOOSE k \in S : \A j \in S : k <= j

IsListLine(line) ==
    LET t == trim(line) IN Len(t) > 2 /\ t[1] \in {"-", "*"} /\ t[2] \in {" ", "\t"}

IsBareText(line) ==
    LET t == trim(line) IN
    t # <<>> /\ ~IsHeadingLine(line) /\ ~IsListLine(line) /\ t[1] \notin {"#", "-", "*"}

LeadingBlanks(line) ==
    Cardinality({k \in 1..Len(line) : \A j \in 1..k : line[j] \in {" ", "\t"}})

-----------------------------------------------------------------------------
\* C3 as stated: when the text has a heading line (1 to 6 markers, whitespace,
\* non-empty text), the root's text is the text of the first such line, that
\* line makes no node, and every later heading line makes exactly one node,
\* whose level is its marker count.
C3_FirstHeadingIsRoot_Original ==
    (Done /\ HeadingLines # {}) =>
        LET f == First(HeadingLines) IN
        /\ RootText = RawHeadingText(lines[f])
        /\ NodesOfLine(f) = {}
        /\ \A k \in HeadingLines :
              k > f => /\ Cardinality(NodesOfLine(k)) = 1
                       /\ \A n \in NodesOfLine(k) : nodes[n].level = MarkerCount(lines[k])

\* C3 amended: the heading lines that count are those whose text is not empty
\* once one trailing '-' (and the whitespace before it) is removed.  The root's
\* text is that stripped text of the first of them, that line makes no node,
\* every later one makes exactly one node, whose level is its marker count and
\* whose text is its stripped text, and a heading line whose stripped text is
\* empty makes no node.
C3_FirstHeadingIsRoot ==
    (Done /\ LabelledHeadings # {}) =>
        LET f == First(LabelledHeadings) IN
        /\ RootText = Label(lines[f])
        /\ NodesOfLine(f) = {}
        /\ \A k \in LabelledHeadings :
              k > f => /\ Cardinality(NodesOfLine(k)) = 1
                       /\ \A n \in NodesOfLine(k) :
                             /\ nodes[n].level = MarkerCount(lines[k])
                             /\ nodes[n].text = Label(lines[k])
        /\ \A k \in HeadingLines \ LabelledHeadings : NodesOfLine(k) = {}

\* A text with a heading of empty label before the root heading and a later
\* heading that became a node
C3_Witness ==
    /\ Done
    /\ Cardinality(LabelledHeadings) >= 2
    /\ \E k \in HeadingLines \ LabelledHeadings : k < First(LabelledHeadings)
    /\ \E n \in 2..Len(nodes) : emittedAt[n] \in LabelledHeadings

C5_IndentedText ==
    (Done /\ lines = IndentedTextExample) =>
        /\ \E n \in NodesOfLine(1) : nodes[n].parent = 1
        /\ Len(ChildrenOf(nodes, 1)) = 1
        /\ Len(ChildrenOf(nodes, ChildrenOf(nodes, 1)[1])) = 2

\* C10: parseMarkdown never raises, on any text; the loop stays within the
\* lines of the text; the result has exactly one root, every other node
\* hanging below an earlier node; and a text with no heading line, no list
\* line and no indented bare-text line gives the default root with no child.
C10_Total ==
    /\ ~thrown
    /\ pc \in {"findRoot", "loop", "done"}
    /\ pc = "loop" => idx \in 1..(Len(lines) + 1)
    /\ Done =>
          /\ nodes[1].id = "root" /\ nodes[1].parent = 0
          /\ \A n \in 2..Len(nodes) : nodes[n].parent \in 1..(n - 1)
          /\ (\A k \in 1..Len(lines) :
                 /\ ~IsHeadingLine(lines[k])
                 /\ ~IsListLine(lines[k])
                 /\ ~(IsBareText(lines[k]) /\ LeadingBlanks(lines[k]) > 0))
              => nodes = <<[id |-> "root", text |-> <<"u4e2d", "u5fc3", "u4e3b", "u9898">>,
                            level |-> 0, parent |-> 0, expanded |-> TRUE]>>

\* The empty text, parsed
C10_WitnessEmpty == Done /\ lines = << <<>> >>

\* A text of unindented bare lines and blank lines, parsed
C10_Witness ==
    /\ Done
    /\ Len(lines) >= 3
    /\ \E k \in 1..Len(lines) : lines[k] = <<"c">>
    /\ \E k \in 1..Len(lines) : lines[k] = <<>>
    /\ \A k \in 1..Len(lines) : lines[k] \in {<<"c">>, <<>>}

\* The parsed tree has been laid out
ParsedLaid == pc = "done" /\ lpc = "done"

\* C13: in the tree parseMarkdown returns the root is expanded and no other
\* node is; the layout of that tree positions the root and the root's
\* children and nothing else.
C13_OnlyRootExpanded ==
    /\ Done =>
          /\ nodes[1].expanded
          /\ \A k \in 2..Len(nodes) : ~nodes[k].expanded
    /\ ParsedLaid =>
          DOMAIN positions = {nodes[k].id : k \in {1} \cup {j \in 2..Len(nodes) : nodes[j].parent = 1}}

\* A parsed tree with a child and a grandchild of the root, laid out
C13_Witness ==
    /\ ParsedLaid
    /\ options.direction = "both"
    /\ \E k \in 2..Len(nodes) : nodes[k].parent = 1
    /\ \E k \in 2..Len(nodes) : nodes[k].parent # 1

\* The text, the level and the children structure of a tree
Shape(tree) ==
    [k \in 1..Len(tree) |->
        [text |-> tree[k].text, level |-> tree[k].level, parent |-> tree[k].parent]]

\* Text b is text a with the other bullet on some of its list lines
IsBulletVariant(a, b) ==
    /\ Len(a) = Len(b)
    /\ \A k \in 1..Len(a) :
          \/ b[k] = a[k]
          \/ k \in ListLinesOf(a) /\ b[k] = SwapBullet(a[k])

\* C14: a text and the text got from it by replacing the bullet of any of
\* its list lines by the other bullet give trees of the same texts, levels
\* and children.
C14_BulletsInterchangeable ==
    Done =>
        \A c \in 1..Len(returned) :
            IsBulletVariant(returned[c].lines, lines)
              => Shape(nodes) = Shape(returned[c].nodes)

\* A text with two list lines parsed after the text with one bullet changed
C14_Witness ==
    /\ Done
    /\ Len(returned) = 1
    /\ Len(nodes) >= 3
    /\ \E k \in ListLinesOf(lines) :
          /\ lines[k] # returned[1].lines[k]
          /\ \E j \in ListLinesOf(lines) : j # k /\ lines[j] = returned[1].lines[j]

\* C15: a text parsed again, right away or after another text, gives a tree
\* of the same texts, levels and children as before: nothing is carried
\* from one call to the next.
C15_SameTextSameTree ==
    Done =>
        \A c \in 1..Len(returned) :
            returned[c].lines = lines => Shape(nodes) = Shape(returned[c].nodes)

\* A text with a heading that makes nodes, parsed a third time after
\* another text
C15_Witness ==
    /\ Done
    /\ Len(returned) = 2
    /\ returned[1].lines = lines
    /\ returned[2].lines # lines
    /\ Len(nodes) >= 3
    /\ \E k \in 1..Len(lines) : headingMatch(trim(lines[k])).matched

\* The last node before node k whose level is less than node k's, the root
\* if there is none
NearestShallower(k) ==
    LET S == {j \in 2..(k - 1) : nodes[j].level < nodes[k].level}
    IN IF S = {} THEN 1 ELSE CHOOSE j \in S : \A i \in S : i <= j

\* C16: every node has a level of at least 1, and its parent is the last
\* node made before it whose level is less than its own, the root if there is
\* none, whatever the drop in level; the root's entry stays at the bottom of
\* the stack.
C16_StackRule ==
    (pc \in {"loop", "done"} /\ ~thrown) =>
        /\ \A k \in 2..Len(nodes) :
              /\ nodes[k].level >= 1
              /\ nodes[k].parent = NearestShallower(k)
        /\ Len(stack) >= 1
        /\ stack[1] = [node |-> 1, minLevel |-> 0]

\* A node of level 1 made after a node of level 3 that is below a node of
\* level 2: two entries are popped, the root's is left
C16_Witness ==
    /\ Done
    /\ Len(nodes) = 4
    /\ nodes[2].level = 2 /\ nodes[3].level = 3 /\ nodes[3].parent = 2
    /\ nodes[4].level = 1 /\ nodes[4].parent = 1
    /\ Len(stack) = 2

\* The base of line j as the claim has it: the level of the last node made
\* from a heading line before line j, 0 if there is none
BaseOfHeadingNodes(j) ==
    LET S == {n \in 2..Len(nodes) : emittedAt[n] < j /\ emittedAt[n] \in HeadingLines}
    IN IF S = {} THEN 0 ELSE nodes[CHOOSE n \in S : \A m \in S : m <= n].level

\* The base of line j: the marker count of the last heading line with a
\* label before line j, the root's heading included, 0 if there is none
BaseOfHeadingLines(j) ==
    LET S == {k \in LabelledHeadings : k < j}
    IN IF S = {} THEN 0 ELSE MarkerCount(lines[CHOOSE k \in S : \A i \in S : i <= k])

\* C17 as stated: a node made from a list line has level base + indentation
\* level + 1 and a node made from a bare line base + indentation level, the
\* base being the level of the last heading node made before, 0 if none: the
\* heading taken as the root leaves the base at 0.
C17_LineLevel_Original ==
    Done =>
        \A n \in 2..Len(nodes) :
            LET j == emittedAt[n] IN
            /\ IsListLine(lines[j]) =>
                  nodes[n].level = BaseOfHeadingNodes(j) + calculateIndentLevel(lines[j]) + 1
            /\ IsBareText(lines[j]) =>
                  nodes[n].level = BaseOfHeadingNodes(j) + calculateIndentLevel(lines[j])

\* C17 amended: the base is the marker count of the last heading line with a
\* label before the line, whether that heading made a node or was taken as
\* the root.
C17_LineLevel ==
    Done =>
        \A n \in 2..Len(nodes) :
            LET j == emittedAt[n] IN
            /\ IsListLine(lines[j]) =>
                  nodes[n].level = BaseOfHeadingLines(j) + calculateIndentLevel(lines[j]) + 1
            /\ IsBareText(lines[j]) =>
                  nodes[n].level = BaseOfHeadingLines(j) + calculateIndentLevel(lines[j])

\* A list item below the root's heading and a bare line below a heading node
C17_Witness ==
    /\ Done
    /\ Len(nodes) = 3
    /\ \E f \in LabelledHeadings :
          /\ f = First(LabelledHeadings)
          /\ IsListLine(lines[emittedAt[2]]) /\ emittedAt[2] > f
          /\ nodes[2].level = MarkerCount(lines[f]) + 1

\* A bare line below a heading that made a node
C17_WitnessHeadingNode ==
    /\ Done
    /\ \E n, h \in 2..Len(nodes) :
          /\ h < n /\ emittedAt[h] \in HeadingLines
          /\ IsBareText(lines[emittedAt[n]])
          /\ nodes[n].level = nodes[h].level + calculateIndentLevel(lines[emittedAt[n]])

\* Node n is below node a in the parsed tree
RECURSIVE NodeUnder(_, _)
NodeUnder(n, a) == n > 1 /\ (nodes[n].parent = a \/ NodeUnder(nodes[n].parent, a))

\* C18: every list line and every indented bare-text line between the line
\* of a heading node H and the next heading line makes a node below H; a node
\* made from a heading line has the line's marker count as its level and the
\* parent the stack rule gives that level, whatever stands in between; the
\* text '# T', '- a', '  - b', '## c', '  - d' gives the root the children a
\* and c, with b below a and d below c.
C18_Interleaved ==
    Done =>
        /\ \A h \in 2..Len(nodes) : \A j \in 1..Len(lines) :
              (/\ emittedAt[h] \in HeadingLines
               /\ emittedAt[h] < j
               /\ \A k \in HeadingLines : ~(emittedAt[h] < k /\ k < j)
               /\ \/ IsListLine(lines[j])
                  \/ IsBareText(lines[j]) /\ calculateIndentLevel(lines[j]) > 0)
              => /\ Cardinality(NodesOfLine(j)) = 1
                 /\ \A n \in NodesOfLine(j) : NodeUnder(n, h)
        /\ \A n \in 2..Len(nodes) :
              emittedAt[n] \in HeadingLines =>
                 /\ nodes[n].level = MarkerCount(lines[emittedAt[n]])
                 /\ nodes[n].parent = NearestShallower(n)
        /\ lines = MixedFormatExample =>
              /\ [k \in 1..Len(nodes) |-> nodes[k].text]
                    = <<<<"T">>, <<"a">>, <<"b">>, <<"c">>, <<"d">>>>
              /\ [k \in 1..Len(nodes) |-> nodes[k].parent] = <<0, 1, 2, 1, 4>>

\* The text of the test, parsed
C18_Witness ==
    /\ Done
    /\ lines = MixedFormatExample
    /\ Len(nodes) = 5

\* The indentation level with one step for every two leading spaces and one
\* step for every leading tab
StepsOfIndent(line) ==
    LET n == LeadingBlanks(line)
        tabs == Cardinality({k \in 1..n : line[k] = "\t"})
    IN tabs + ((n - tabs) \div 2)

\* C19: the indentation level the parser gives a line is one step for every
\* two leading spaces and one step for every leading tab (floor(k/2) for k
\* spaces, a tab as much as two spaces): a node made from a list line has
\* level base + steps + 1, a node made from a bare line base + steps.
C19_TabIsTwoSpaces ==
    Done =>
        \A n \in 2..Len(nodes) :
            LET j == emittedAt[n] IN
            /\ IsListLine(lines[j]) =>
                  nodes[n].level = BaseOfHeadingLines(j) + StepsOfIndent(lines[j]) + 1
            /\ IsBareText(lines[j]) =>
                  nodes[n].level = BaseOfHeadingLines(j) + StepsOfIndent(lines[j])

\* C22: when the text has a heading line with a label, only lines after the
\* first of them (the root's line) make nodes, and no node made from a line
\* after the root's line is the child of a node made from a line before it.
C22_OnlyAfterRootLine ==
    (Done /\ LabelledHeadings # {}) =>
        LET f == First(LabelledHeadings) IN
        /\ \A n \in 2..Len(nodes) : emittedAt[n] > f
        /\ \A n \in 2..Len(nodes) :
              (emittedAt[n] > f /\ nodes[n].parent # 1) => emittedAt[nodes[n].parent] > f

\* C23: the label taken from a heading line, for the root and for a heading
\* node, is not empty and ends neither with '-' nor with whitespace; a heading
\* line whose text is empty once the dashes are stripped gives no root label
\* and no node.
C23_NoTrailingDash ==
    Done =>
        /\ \A n \in 1..Len(nodes) :
              emittedAt[n] \in HeadingLines =>
                 /\ nodes[n].text # <<>>
                 /\ nodes[n].text[Len(nodes[n].text)] \notin {"-", " ", "\t"}
        /\ \A k \in HeadingLines \ LabelledHeadings :
              NodesOfLine(k) = {} /\ emittedAt[1] # k

\* The depth of node n in the parsed tree, 0 for the root
RECURSIVE NodeDepth(_)
NodeDepth(n) == IF n = 1 THEN 0 ELSE 1 + NodeDepth(nodes[n].parent)

\* C25: the root has level 0, every other node a level of 1 or more and a
\* level above its parent's, so at least its depth; after every line the
\* stack holds nodes of rising level, from the root (level 0) at the bottom.
C25_LevelsRise ==
    (pc \in {"loop", "done"} /\ ~thrown) =>
        /\ nodes[1].level = 0
        /\ \A k \in 2..Len(nodes) :
              /\ nodes[k].level >= 1
              /\ nodes[k].level > nodes[nodes[k].parent].level
              /\ nodes[k].level >= NodeDepth(k)
        /\ stack[1].node = 1
        /\ \A i \in 1..Len(stack) : stack[i].minLevel = nodes[stack[i].node].level
        /\ \A i \in 1..(Len(stack) - 1) : stack[i].minLevel < stack[i + 1].minLevel

\* A node whose level is more than its depth, next to a sibling of its own
\* level, with three entries on the stack
C25_Witness ==
    /\ Done
    /\ Len(stack) = 3
    /\ \E a, b \in 2..Len(nodes) :
          /\ a < b /\ nodes[a].level = nodes[b].level
          /\ nodes[a].parent = nodes[b].parent
    /\ \E k \in 2..Len(nodes) : nodes[k].level > NodeDepth(k)

\* The pre-order traversal of the parsed tree below and including node n
RECURSIVE PreOrder(_)
PreOrder(n) ==
    LET RECURSIVE each(_)
        each(cs) == IF cs = <<>> THEN <<>> ELSE PreOrder(Head(cs)) \o each(Tail(cs))
    IN <<n>> \o each(ChildrenOf(nodes, n))

\* C26: the root has the id 'root' and the k-th emitted node the id 'node-k',
\* so ids are pairwise distinct; a pre-order traversal visits the nodes in the
\* order of their lines, ids node-0, node-1, ... rising, and every list of
\* children is in the order of the lines.
C26_IdsInLineOrder ==
    Done =>
        LET po == PreOrder(1) IN
        /\ nodes[1].id = "root"
        /\ Len(po) = Len(nodes)
        /\ po[1] = 1
        /\ \A i \in 2..Len(po) : nodes[po[i]].id = NodeId(i - 2)
        /\ \A i, j \in 2..Len(po) : i < j => emittedAt[po[i]] < emittedAt[po[j]]
        /\ \A a, b \in 1..Len(nodes) : a # b => nodes[a].id # nodes[b].id
        /\ \A p \in 1..Len(nodes) :
              LET cs == ChildrenOf(nodes, p) IN
              \A i, j \in 1..Len(cs) : i < j => emittedAt[cs[i]] < emittedAt[cs[j]]

\* A returned tree in which a node with a child of its own is followed by a
\* sibling, so that the traversal climbs back up
C26_Witness ==
    /\ Done
    /\ \E a, b, c \in 2..Len(nodes) :
          /\ nodes[b].parent = a
          /\ nodes[c].parent = nodes[a].parent
          /\ a < b /\ b < c
          /\ nodes[c].id = "node-2"

-----------------------------------------------------------------------------
(* The task queue *)

InMap(id) == \E i \in 1..Len(tasks) : tasks[i].id = id
StatusOf(id) == LET i == CHOOSE i \in 1..Len(tasks) : tasks[i].id = id IN tasks[i].status
RunningTasks == {i \in 1..Len(tasks) : tasks[i].status = "running"}

\* C28: at most one task is running at any time; isProcessing is true exactly
\* while a task is being executed; the mind-map task a running download task
\* creates is not started before the download task has finished.
C28_OneAtATime ==
    /\ Cardinality(RunningTasks) <= 1
    /\ isProcessing <=> epc # "idle"
    /\ isProcessing =>
          /\ InMap(current)
          /\ StatusOf(current) = IF epc = "finishing" THEN "completed" ELSE "running"
    /\ ~isProcessing => RunningTasks = {}
    /\ \A i, j \in 1..Len(tasks) :
          (createdBy[tasks[j].id] = tasks[i].id /\ tasks[j].status # "pending")
              => IsFinal(tasks[i].status)

\* The download task is completed and being saved, the mind-map task it
\* created is still pending, and so is a task created meanwhile
C28_Witness ==
    /\ isProcessing
    /\ epc = "finishing"
    /\ \E j \in 1..Len(tasks) :
          /\ createdBy[tasks[j].id] = current
          /\ tasks[j].status = "pending"
    /\ \E j \in 1..Len(tasks) :
          /\ createdBy[tasks[j].id] = 0
          /\ tasks[j].status = "pending"

\* The mind-map task created by a download task is running
C28_WitnessFollowUp ==
    \E i, j \in 1..Len(tasks) :
        /\ createdBy[tasks[j].id] = tasks[i].id
        /\ tasks[j].status = "running"
        /\ tasks[i].status = "completed"

\* C29: every task that is pending in the map is executed and becomes
\* completed or failed as long as the worker lives, whether or not a further
\* task is created; so are the tasks restored as pending and the tasks queued
\* behind a task that fails.
C29_PendingIsExecuted ==
    \A id \in 1..MaxTasks :
        (InMap(id) /\ StatusOf(id) = "pending")
            ~> (~InMap(id) \/ IsFinal(StatusOf(id)))

\* C30: when the queue is idle the array in the storage holds the final status
\* of every task whose execution has ended, and no task whose execution has
\* ended is ever pending or running again.
C30_FinalStatusStored ==
    /\ (~isProcessing /\ writes = <<>>) =>
          \A i \in 1..Len(tasks) :
              tasks[i].id \in ended =>
                  \E j \in 1..Len(stored) :
                      /\ stored[j].id = tasks[i].id
                      /\ stored[j].status = tasks[i].status
                      /\ IsFinal(stored[j].status)
    /\ \A i \in 1..Len(tasks) : tasks[i].id \in ended => IsFinal(tasks[i].status)

====
